---- MODULE Spec2Model ----
(***************************************************************************)
(* The request/response correlation protocol of tauri-sys (the callback    *)
(* registry on `window`, invoke, mockIPC/clearMocks) and the event         *)
(* subscription layer built on it (listen, once, _unlisten).               *)
(*                                                                         *)
(* JavaScript runs one handler at a time, so every action below is one     *)
(* synchronous run of a function of the source, from its call to the point *)
(* where it returns to the event loop.  Promise reactions that touch no    *)
(* shared state (the .then of listen) are folded into the step that        *)
(* settles the promise.                                                    *)
(***************************************************************************)
EXTENDS Integers, Sequences, FiniteSets, TLC

\* ---------------------------------------------------------------- bounds
\* The length of a run: every call of invoke (those of listen, of its thunk and
\* of a once wrapper included) and every callback by the host counts one, and
\* every uid() that returns an identifier it returned before counts one more.
MaxSteps == 5

\* The messages the primitive of mockIPC is given in a run.
MaxTasks == 2

\* The calls of FileHandle.read in a run.
MaxReads == 2

\* The calls of next() on the iterator of readTextFileLines in a run.
MaxNext == 3

\* The calls of WindowHandle.listen in a run, and the calls of one thunk.
MaxListens == 2
MaxThunkCalls == 2

\* The calls of WindowHandle.emit in a run.
MaxEmits == 2

\* The close-requested events the host delivers in a run.
MaxCloseRequests == 3

\* The calls of onFocusChanged and onFileDropEvent in a run.
MaxWatches == 2

\* The chunks of the stream given to writeFile.
MaxChunks == 3

\* ---------------------------------------------------------------- values
\* JavaScript values that cross the boundary, as records of one shape.
Undefined == [tag |-> "undefined", id |-> 0, v |-> 0]
TypeError == [tag |-> "TypeError", id |-> 0, v |-> 0]
Num(n) == [tag |-> "number", id |-> 0, v |-> n]
Null == [tag |-> "null", id |-> 0, v |-> 0]
RangeError == [tag |-> "RangeError", id |-> 0, v |-> 0]
\* The value the host passes in its n-th callback: an object { id: n, payload: n }.
\* The code never inspects a payload beyond reading .id, so a payload that
\* differs from every earlier one stands for any payload.
Payload(n) == [tag |-> "object", id |-> n, v |-> n]

\* eventData.id
IdOf(eventData) ==
    IF eventData.tag = "object" THEN Num(eventData.id) ELSE Undefined

\* The identifiers handed out so far.
Used(st) ==
    {st.invs[i].callback : i \in DOMAIN st.invs}
        \cup {st.invs[i].error : i \in DOMAIN st.invs}
        \cup {st.subs[k].handler : k \in DOMAIN st.subs}

\* The values uid() can return after it returned the identifiers of used: a
\* random 32 bit number, with no check against the identifiers in use.
\* Identifiers are only ever compared, so a number never handed out before is
\* represented by the least such number.  room: what is left of the run for
\* an identifier handed out before.
Fresh(used) ==
    {id \in 0..Cardinality(used) :
        id \notin used /\ \A other \in 0..(id - 1) : other \in used}
uid(used, room) == Fresh(used) \cup (IF room > 0 THEN used ELSE {})

\* 1 when uid() returned an identifier it had returned before.
Again(identifier, used) == IF identifier \in used THEN 1 ELSE 0

\* The times uid() returned an identifier it had returned before: the calls of
\* transformCallback (two for each invoke, one for each listen) that did not
\* take a new identifier.
Collisions(st) == 2 * Len(st.invs) + Len(st.subs) - Cardinality(Used(st))

Cmds == {"ping"}
\* The event names of the application, in the order in which it first uses
\* them.  The code only passes a name on, so the names listen may be given are
\* those given before and the first one not given yet.
EventNames == <<"tick", "tock">>
Events(st) ==
    LET given == {st.subs[k].event : k \in DOMAIN st.subs}
    IN  given \cup {EventNames[n] : n \in {n \in DOMAIN EventNames :
                                            n = Cardinality(given) + 1}}
NoArgs == [f \in {} |-> Undefined]

\* ----------------------------------------------------------------- state
VARIABLES
    window,    \* window["_" + id], for the ids that are registered: the closure
    ipc,       \* TRUE when window.__TAURI_IPC__ is installed
    invs,      \* the calls of invoke so far: the promise each returned, the
               \* message it built and how the call of window.__TAURI_IPC__ went
    subs,      \* the calls of listen / once so far, with the promise each returned
    steps,     \* the length of the run so far (see MaxSteps)
    last       \* the host's callbacks: how many so far (n), and of the latest
               \* the id it called, whether window had a closure for it (hit),
               \* whether the closure found its own entry in window when it
               \* started (own) and whether the call threw at the host (threw)

VARIABLES
    tasks      \* the calls of the primitive mockIPC installed: what the mock
               \* handler does, whether the call has run to its end, the
               \* entries it invoked and whether it ended in a rejection

VARIABLES
    reads      \* the calls of FileHandle.read: the size of the buffer, the
               \* command sent (if any), the host's reply and the promise

VARIABLES
    lines      \* the iterator readTextFileLines returned: this.rid, the
               \* resources the host has opened for it and the calls of next()

\* The state of the modules on top of invoke, which tauri.ts and event.ts
\* leave alone.
VARIABLES
    win        \* a WindowHandle: this.listeners, the thunks its listen has
               \* returned and the handlers its last emit has called

VARIABLES
    closing    \* onCloseRequested: the events delivered to its callback, each
               \* with the state of the handler's result and the flag of its
               \* CloseRequestedEvent, and the close commands sent

VARIABLES
    watches    \* the calls of onFocusChanged and onFileDropEvent: the listen
               \* each awaits, its subscriptions at the host and its promise

VARIABLES
    writing    \* a call of writeFile with a stream: where it is, the handle
               \* it opened, the chunks of the stream and the commands sent

rest == <<tasks, reads, lines, win, closing, watches, writing>>

\* The state of tauri.ts, event.ts and the mock, which the modules on top of
\* invoke reach through invoke only.
core == <<window, ipc, invs, subs, steps, last>>

vars == <<window, ipc, invs, subs, steps, last, rest>>

\* What window[`_${id}`] reads when there is no such property.
NoEntry == [kind |-> "none", owner |-> 0, once |-> FALSE]
Get(w, identifier) ==
    IF identifier \in DOMAIN w THEN w[identifier] ELSE NoEntry

\* The part of the state the functions of the source read and write.
State == [window |-> window, invs |-> invs, subs |-> subs]

\* Reflect.deleteProperty(window, `_${id}`)
deleteProperty(w, identifier) ==
    [id \in DOMAIN w \ {identifier} |-> w[id]]

\* transformCallback that ignores once: the entry is never deleted by its wrapper.
transformCallbackKeeps(w, identifier, callback, once3) ==
    [id \in DOMAIN w \cup {identifier} |->
        IF id = identifier
        THEN [kind |-> callback.kind, owner |-> callback.owner, once |-> FALSE]
        ELSE w[id]]

\* transformCallback with the identifier uid() returned: Object.defineProperty
\* (configurable: true) defines the property, or redefines it when it exists.
\* callback is the closure, [kind, owner]; the wrapper keeps the once flag.
transformCallback(w, identifier, callback, once3) ==
    [id \in DOMAIN w \cup {identifier} |->
        IF id = identifier
        THEN [kind |-> callback.kind, owner |-> callback.owner, once |-> once3]
        ELSE w[id]]

\* resolve / reject that settle the promise with undefined, not with their argument.
settleLosesValue(st, i, how, e) ==
    [st EXCEPT !.invs[i].delivered = @ + 1,
               !.invs[i].state = IF @ = "pending" THEN how ELSE @]

\* resolve / reject that both fulfil the promise.
settleAlwaysResolves(st, i, how, e) ==
    [st EXCEPT !.invs[i].delivered = @ + 1,
               !.invs[i].state = IF @ = "pending" THEN "resolved" ELSE @,
               !.invs[i].value = IF st.invs[i].state = "pending" THEN e ELSE @]

\* resolve / reject of the promise invoke created: the first call settles the
\* promise, any later call has no effect on it.  delivered counts the calls.
\* The .then of listen runs on the promise of a listen command: it resolves
\* the promise of listen to the thunk that captured eventId, or rejects it.
settle(st, i, how, e) ==
    LET inv == st.invs[i]
        first == inv.state = "pending"
        k == inv.origin.sub
    IN  [st EXCEPT
            !.invs[i].delivered = @ + 1,
            !.invs[i].state = IF first THEN how ELSE @,
            !.invs[i].value = IF first THEN e ELSE @,
            !.subs = IF first /\ inv.origin.kind = "listen"
                     THEN [@ EXCEPT ![k].state = how, ![k].eventId = e]
                     ELSE @]

\* What the call window.__TAURI_IPC__(message) does: "none" when the
\* primitive takes the message, "absent" when it is not installed (calling
\* undefined is a TypeError), "threw" when it throws synchronously.
callPrimitive(installed, throws) ==
    IF ~installed THEN "absent" ELSE IF throws THEN "threw" ELSE "none"

\* new Promise whose executor swallows the exception of the primitive.
newPromiseSwallows(failure) == [state |-> "pending", value |-> Undefined]

\* new Promise(executor): an exception in the executor rejects the promise
\* with what was thrown, otherwise the promise is pending when invoke returns.
newPromise(failure) ==
    IF failure = "none"
    THEN [state |-> "pending", value |-> Undefined]
    ELSE [state |-> "rejected", value |-> TypeError]

\* invoke(cmd, args), with the two identifiers uid() returned.  throws: the
\* installed primitive throws synchronously.
invoke(st, installed, cmd, args, origin, callback, error, throws) ==
    LET i == Len(st.invs) + 1
        w1 == transformCallback(st.window, callback,
                                [kind |-> "resolve", owner |-> i], TRUE)
        w2 == transformCallback(w1, error,
                                [kind |-> "reject", owner |-> i], TRUE)
        message == args @@ [cmd |-> cmd, callback |-> callback, error |-> error]
        failure == callPrimitive(installed, throws)
        promise == newPromise(failure)
        inv == [cmd |-> cmd, args |-> args, callback |-> callback,
                error |-> error, origin |-> origin,
                state |-> promise.state, value |-> promise.value,
                delivered |-> 0,
                message |-> message,
                failure |-> failure]
        subs1 == IF promise.state = "rejected" /\ origin.kind = "listen"
                 THEN [st.subs EXCEPT ![origin.sub].state = "rejected",
                                      ![origin.sub].eventId = promise.value]
                 ELSE st.subs
    IN  [window |-> w2,
         invs |-> Append(st.invs, inv),
         subs |-> subs1]

\* A catch whose handler throws the reason again.
catchIgnoreRethrows(promise) == promise

\* promise.catch(() => {}): the promise once leaves behind for the unlisten
\* command it issued.  A rejection is handled and becomes undefined.
catchIgnore(promise) ==
    IF promise.state = "rejected"
    THEN [state |-> "resolved", value |-> Undefined]
    ELSE promise

\* An _unlisten that catches the rejection of its command.
unlistenPromiseSwallows(inv) ==
    [state |-> IF inv.state = "pending" THEN "pending" ELSE "resolved",
     value |-> Undefined]

\* The promise _unlisten returns, which is the promise its caller gets from the
\* thunk: async function _unlisten(...) { await invoke(...) } is fulfilled
\* with undefined when the command is resolved and rejected with the reason
\* of the command when that is rejected.  inv: the call of invoke.
unlistenPromise(inv) ==
    IF inv.state = "rejected"
    THEN [state |-> "rejected", value |-> inv.value]
    ELSE [state |-> inv.state, value |-> Undefined]

\* _unlisten that sends the command without the subscription token.
_unlistenNoToken(st, installed, event, eventId, origin, callback, error, throws) ==
    invoke(st, installed, "plugin:event|unlisten",
           [event |-> event, eventId |-> Undefined],
           origin, callback, error, throws)

\* _unlisten(event, eventId): one unlisten command and nothing else.  The event
\* layer sends its commands through the invoke of the host's bridge, for which
\* invoke of tauri.ts stands.
_unlisten(st, installed, event, eventId, origin, callback, error, throws) ==
    invoke(st, installed, "plugin:event|unlisten",
           [event |-> event, eventId |-> eventId],
           origin, callback, error, throws)

\* A listen that calls the handler once on its own, when it registers it.
listenCallsHandler(st, installed, event, isOnce, identifier, callback, error, throws) ==
    LET k == Len(st.subs) + 1
        w1 == transformCallback(st.window, identifier,
                                [kind |-> "handler", owner |-> k], FALSE)
        sub == [event |-> event, handler |-> identifier, once |-> isOnce,
                inv |-> Len(st.invs) + 1, calls |-> <<Undefined>>,
                state |-> "pending", eventId |-> Undefined]
        st1 == [st EXCEPT !.window = w1, !.subs = Append(@, sub)]
    IN  invoke(st1, installed, "plugin:event|listen",
               [event |-> event, handler |-> identifier],
               [kind |-> "listen", sub |-> k], callback, error, throws)

\* listen(event, handler): the persistent entry first, then the listen command.
listen(st, installed, event, isOnce, identifier, callback, error, throws) ==
    LET k == Len(st.subs) + 1
        w1 == transformCallback(st.window, identifier,
                                [kind |-> "handler", owner |-> k], FALSE)
        sub == [event |-> event, handler |-> identifier, once |-> isOnce,
                inv |-> Len(st.invs) + 1, calls |-> <<>>,
                state |-> "pending", eventId |-> Undefined]
        st1 == [st EXCEPT !.window = w1, !.subs = Append(@, sub)]
    IN  invoke(st1, installed, "plugin:event|listen",
               [event |-> event, handler |-> identifier],
               [kind |-> "listen", sub |-> k], callback, error, throws)

\* The caller's handler: it records what it is given.
handler(st, k, eventData) ==
    [st EXCEPT !.subs[k].calls = Append(@, eventData)]

\* The closures of invoke without the removal of the sibling entry.
callbackBodyKeepsSibling(st, installed, entry, result, callback, error, throws) ==
    IF entry.kind = "resolve" THEN settle(st, entry.owner, "resolved", result)
    ELSE IF entry.kind = "reject" THEN settle(st, entry.owner, "rejected", result)
    ELSE handler(st, entry.owner, result)

\* The wrapper of once issuing the unlisten command before it calls the handler.
callbackBodyUnlistensFirst(st, installed, entry, result, callback, error, throws) ==
    IF entry.kind = "resolve" THEN
        LET st1 == settle(st, entry.owner, "resolved", result)
        IN  [st1 EXCEPT !.window =
                deleteProperty(@, st.invs[entry.owner].error)]
    ELSE IF entry.kind = "reject" THEN
        LET st1 == settle(st, entry.owner, "rejected", result)
        IN  [st1 EXCEPT !.window =
                deleteProperty(@, st.invs[entry.owner].callback)]
    ELSE
        LET k == entry.owner
        IN  IF st.subs[k].once
            THEN handler(_unlisten(st, installed, st.subs[k].event,
                                   IdOf(result),
                                   [kind |-> "once", sub |-> k,
                                    handled |-> Len(st.subs[k].calls)],
                                   callback, error, throws),
                         k, result)
            ELSE handler(st, k, result)

\* The closure a registry entry holds, run with the host's argument.
\*   resolve: (e) => { resolve(e); deleteProperty(window, `_${error}`) }
\*   reject:  (e) => { reject(e); deleteProperty(window, `_${callback}`) }
\*   handler: the handler given to listen, or the wrapper once gives to it:
\*            (eventData) => { handler(eventData); _unlisten(event, eventData.id) }
\*            The origin of that command records how many calls of the
\*            caller's handler had returned when it was issued (handled).
callbackBody(st, installed, entry, result, callback, error, throws) ==
    IF entry.kind = "resolve" THEN
        LET st1 == settle(st, entry.owner, "resolved", result)
        IN  [st1 EXCEPT !.window =
                deleteProperty(@, st.invs[entry.owner].error)]
    ELSE IF entry.kind = "reject" THEN
        LET st1 == settle(st, entry.owner, "rejected", result)
        IN  [st1 EXCEPT !.window =
                deleteProperty(@, st.invs[entry.owner].callback)]
    ELSE
        LET k == entry.owner
            st1 == handler(st, k, result)
        IN  IF st.subs[k].once
            THEN _unlisten(st1, installed, st.subs[k].event, IdOf(result),
                           [kind |-> "once", sub |-> k,
                            handled |-> Len(st1.subs[k].calls)],
                           callback, error, throws)
            ELSE st1

\* A wrapper that leaves the removal of a one-shot entry for later.
enterKeepsEntry(st, identifier) == st

\* The first statement of the wrapper transformCallback installs:
\*   if (once3) { Reflect.deleteProperty(window, prop) }
\* The result is the state in which the closure starts to run.
enter(st, identifier) ==
    IF Get(st.window, identifier).once
    THEN [st EXCEPT !.window = deleteProperty(@, identifier)]
    ELSE st

\* Calling window[`_${identifier}`] where there is no such property: the
\* callee is undefined, and the call throws a TypeError at the caller.
callThrows(w, identifier) == identifier \notin DOMAIN w

\* The wrapper calling the closure without the host's argument.
wrapperDropsResult(st, installed, identifier, result, callback, error, throws) ==
    callbackBody(enter(st, identifier), installed, Get(st.window, identifier),
                 Undefined, callback, error, throws)

\* The wrapper transformCallback installs, called by the host with result:
\* a one-shot entry deletes itself, then the closure runs.
wrapper(st, installed, identifier, result, callback, error, throws) ==
    callbackBody(enter(st, identifier), installed, Get(st.window, identifier),
                 result, callback, error, throws)

\* --------------------------------------------------------------- actions
\* What a state adds to the length of the run, the host's callbacks aside.
Cost(st) == Len(st.invs) + Collisions(st)

Commit(st, callbacks) ==
    \E new \in {st} :
        /\ window' = new.window
        /\ invs' = new.invs
        /\ subs' = new.subs
        /\ steps' = steps + callbacks + Cost(new) - Cost(State)

\* What is left of the run after the step that is being taken.
Room == MaxSteps - steps - 1

Init ==
    /\ window = [id \in {} |-> NoEntry]
    /\ ipc \in BOOLEAN
    /\ invs = <<>>
    /\ subs = <<>>
    /\ steps = 0
    /\ last = [n |-> 0, id |-> 0, hit |-> FALSE, own |-> FALSE, threw |-> FALSE]
    /\ tasks = <<>>
    /\ reads = <<>>
    /\ lines = [rid |-> Null, opened |-> 0, calls |-> <<>>]
    /\ win = [listeners |-> <<>>, thunks |-> <<>>, called |-> <<>>,
              calls |-> [h \in {"h1", "h2"} |-> 0], emits |-> 0,
              event |-> "", sent |-> <<>>, registered |-> 0,
              create |-> "skipped", fired |-> <<>>]
    /\ closing = [events |-> <<>>, sent |-> <<>>]
    /\ watches = <<>>
    /\ writing = [pos |-> "idle", rid |-> Null, chunks |-> <<>>, next |-> 1,
                  sent |-> <<>>]

\* mockIPC(cb): installs window.__TAURI_IPC__.
MockIPC ==
    /\ ipc' = TRUE
    /\ UNCHANGED <<window, invs, subs, steps, last, rest>>

\* clearMocks(): deletes window.__TAURI_IPC__.
ClearMocks ==
    /\ ipc
    /\ ipc' = FALSE
    /\ UNCHANGED <<window, invs, subs, steps, last, rest>>

\* The application calls invoke(cmd).
Invoke ==
    /\ steps < MaxSteps
    /\ \E cmd \in Cmds, throws \in BOOLEAN :
       \E callback \in uid(Used(State), Room) :
       \E error \in uid(Used(State) \cup {callback},
                        Room - Again(callback, Used(State))) :
          Commit(invoke(State, ipc, cmd, NoArgs, [kind |-> "user", sub |-> 0],
                        callback, error, throws), 0)
    /\ UNCHANGED <<ipc, last, rest>>

\* The application calls listen(event, handler) or once(event, handler).
\* In the event layer the primitive fails only where it is not installed: what
\* a throwing primitive does to invoke is the subject of Invoke.
Listen ==
    /\ steps < MaxSteps
    /\ \E event \in Events(State), isOnce \in BOOLEAN :
       \E identifier \in uid(Used(State), Room) :
       \E callback \in uid(Used(State) \cup {identifier},
                           Room - Again(identifier, Used(State))) :
       \E error \in uid(Used(State) \cup {identifier, callback},
                        Room - Again(identifier, Used(State))
                             - Again(callback, Used(State) \cup {identifier})) :
          Commit(listen(State, ipc, event, isOnce, identifier,
                        callback, error, FALSE), 0)
    /\ UNCHANGED <<ipc, last, rest>>

\* The application calls the thunk listen resolved to:
\* async () => _unlisten(event, eventId).
Unlisten ==
    /\ steps < MaxSteps
    /\ \E k \in DOMAIN subs :
       \E callback \in uid(Used(State), Room) :
       \E error \in uid(Used(State) \cup {callback},
                        Room - Again(callback, Used(State))) :
          /\ subs[k].state = "resolved"
          /\ Commit(_unlisten(State, ipc, subs[k].event, subs[k].eventId,
                              [kind |-> "thunk", sub |-> k],
                              callback, error, FALSE), 0)
    /\ UNCHANGED <<ipc, last, rest>>

\* The host calls window["_" + identifier](result).  Without a property of
\* that name the call is a TypeError on the host's side and nothing runs.
HostCallback ==
    /\ steps < MaxSteps
    /\ \E identifier \in Used(State) \cup Fresh(Used(State)) :
          LET result == Payload(last.n + 1)
              entry == Get(window, identifier)
              nested == entry.kind = "handler" /\ subs[entry.owner].once
          IN  /\ last' = [n |-> last.n + 1, id |-> identifier,
                          hit |-> entry.kind # "none",
                          own |-> identifier \in
                                      DOMAIN enter(State, identifier).window,
                          threw |-> callThrows(window, identifier)]
              /\ IF entry.kind = "none"
                 THEN /\ steps' = steps + 1
                      /\ UNCHANGED <<window, invs, subs>>
                 ELSE IF nested
                 THEN \E callback \in uid(Used(State), Room - 1) :
                      \E error \in uid(Used(State) \cup {callback},
                                       Room - 1 - Again(callback, Used(State))) :
                          /\ Room >= 1
                          /\ Commit(wrapper(State, ipc, identifier, result,
                                            callback, error, FALSE), 1)
                 ELSE Commit(wrapper(State, ipc, identifier, result,
                                     0, 0, FALSE), 1)
    /\ UNCHANGED <<ipc, rest>>

\* The invocation channel alone: invoke, and the host calling back.
NextInvoke ==
    \/ MockIPC
    \/ ClearMocks
    \/ Invoke
    \/ HostCallback

SpecInvoke == Init /\ [][NextInvoke]_vars

\* The event subscription layer on top of it: listen, once and their thunks.
NextEvent ==
    \/ Listen
    \/ Unlisten
    \/ HostCallback

\* The event layer runs where the host has installed its primitive.
InitEvent == Init /\ ipc

SpecEvent == InitEvent /\ [][NextEvent]_vars

\* ---------------------------------------------------------------- claims
\* A step in which the host called window["_" + last'.id].
HostCalled == last'.n = last.n + 1

\* The two identifiers invoke registered for its i-th call.
Own(i) == {invs[i].callback, invs[i].error}

\* The identifiers under which a closure of the i-th call of invoke is registered.
EntriesOf(i) ==
    {id \in DOMAIN window :
        window[id].owner = i /\ window[id].kind \in {"resolve", "reject"}}

\* C1: the promise invoke returned settles at most once: whatever callbacks
\* the host makes on its two ids, resolve or reject is called at most once for
\* it, and once it is settled its outcome and its value never change.
C1_SettlesAtMostOnce ==
    [][\A i \in DOMAIN invs :
          /\ invs'[i].delivered <= 1
          /\ invs[i].state # "pending" =>
                /\ invs'[i].state = invs[i].state
                /\ invs'[i].value = invs[i].value]_vars

\* C1 happens: an invocation was settled by a callback, and the host then
\* called one of its two ids again.
C1_Witness ==
    \E i \in DOMAIN invs :
        /\ invs[i].delivered = 1
        /\ invs[i].state # "pending"
        /\ last.id \in Own(i)
        /\ ~last.hit

\* An invocation the host has received and not yet answered.
Outstanding(i) == invs[i].failure = "none" /\ invs[i].state = "pending"

\* C2: for two invocations A and B outstanding at the same time, a host
\* callback on an id of B that is not an id of A changes neither A's promise
\* nor A's registry entries, and when a callback settles A it is a callback on
\* one of A's ids and A takes that callback's payload.
C2_OnlyOwnCallbacks ==
    [][HostCalled =>
          \A a, b \in DOMAIN invs :
              (a # b /\ Outstanding(a) /\ Outstanding(b)) =>
                  /\ (last'.id \in Own(b) /\ last'.id \notin Own(a)) =>
                        /\ invs'[a] = invs[a]
                        /\ \A id \in EntriesOf(a) :
                              id \in DOMAIN window' /\ window'[id] = window[id]
                  /\ invs'[a].state # invs[a].state =>
                        /\ last'.id \in Own(a)
                        /\ invs'[a].value = Payload(last'.n)]_vars

\* C3: transformCallback never returns an identifier that is registered: the
\* two identifiers a call of invoke takes are not in the registry before the
\* call and differ from each other.
C3_FreshIdentifiers ==
    [][\A i \in DOMAIN invs' \ DOMAIN invs :
          /\ invs'[i].callback \notin DOMAIN window
          /\ invs'[i].error \notin DOMAIN window
          /\ invs'[i].callback # invs'[i].error]_vars

\* C4: when the host calls the success entry or the error entry of an
\* invocation, neither of the invocation's two ids is registered afterwards.
C4_BothEntriesRemoved ==
    [][\A id \in DOMAIN window :
          (HostCalled /\ last'.id = id
              /\ window[id].kind \in {"resolve", "reject"}) =>
                \A own \in Own(window[id].owner) : own \notin DOMAIN window']_vars

\* C4 happens: the host has just called an entry of an invocation that had
\* registered two different ids.
C4_Witness ==
    \E i \in DOMAIN invs :
        /\ last.hit
        /\ last.id \in Own(i)
        /\ invs[i].delivered = 1
        /\ invs[i].callback # invs[i].error
        /\ invs[i].value = Payload(last.n)

\* C5: an invoke whose call of the host primitive threw, or found no primitive
\* installed, has its promise rejected from the moment invoke returns on.
C5_RejectedAtOnce ==
    \A i \in DOMAIN invs :
        invs[i].failure # "none" => invs[i].state = "rejected"

\* C5 happens: one invoke found no primitive, another one's primitive threw.
C5_Witness ==
    \E i, j \in DOMAIN invs :
        /\ invs[i].failure = "absent"
        /\ invs[j].failure = "threw"
        /\ invs[i].state = "rejected"
        /\ invs[j].state = "rejected"

\* C6: an invoke whose call of the host primitive threw, or found no primitive
\* installed, leaves the registry as it was before the call (stated for the
\* calls to which uid() gave two new, different identifiers).
C6_RegistryRestored ==
    [][\A i \in DOMAIN invs' \ DOMAIN invs :
          (/\ invs'[i].failure # "none"
           /\ invs'[i].callback \notin Used(State)
           /\ invs'[i].error \notin Used(State)
           /\ invs'[i].callback # invs'[i].error) => window' = window]_vars

\* The persistent entry listen registered for subscription k is in the registry.
HandlerLive(k) ==
    /\ subs[k].handler \in DOMAIN window
    /\ window[subs[k].handler] = [kind |-> "handler", owner |-> k, once |-> FALSE]

\* The host has acknowledged an unlisten command that came from: "thunk", the
\* thunk listen resolved to, or "once", the wrapper of once.
Unlistened(k, from) ==
    \E i \in DOMAIN invs :
        /\ invs[i].origin.kind = from
        /\ invs[i].origin.sub = k
        /\ invs[i].cmd = "plugin:event|unlisten"
        /\ invs[i].state = "resolved"

\* C7: once the host has acknowledged the unlisten command the thunk of a
\* subscription sent, the persistent entry of that subscription is no longer
\* in the registry.
C7_UnlistenRemovesEntry ==
    \A k \in DOMAIN subs : Unlistened(k, "thunk") => ~HandlerLive(k)

\* C8: after the thunk of a subscription was called and the host acknowledged
\* the unlisten command, no host callback calls the handler of that subscription.
C8_NoCallsAfterUnlisten ==
    [][\A k \in DOMAIN subs :
          (HostCalled /\ Unlistened(k, "thunk")) =>
              subs'[k].calls = subs[k].calls]_vars

\* C9: a handler registered with once is called at most once as long as the
\* host has acknowledged none of the unlisten commands of its wrapper.
C9_OnceCalledOnce ==
    \A k \in DOMAIN subs :
        (subs[k].once /\ ~Unlistened(k, "once")) => Len(subs[k].calls) <= 1

\* C10: a host callback on an id that holds the persistent entry of a
\* subscription calls that subscription's handler once, with the payload of
\* the callback; nothing else calls a handler, so every handler has seen the
\* payloads delivered to its entry, each once and in the order of delivery.
C10_HandlerGetsPayload ==
    [][\A k \in DOMAIN subs :
          subs'[k].calls =
              IF /\ HostCalled
                 /\ Get(window, last'.id) =
                        [kind |-> "handler", owner |-> k, once |-> FALSE]
              THEN Append(subs[k].calls, Payload(last'.n))
              ELSE subs[k].calls]_vars

\* C10 happens: a listen handler was given three payloads, the host's first,
\* second and third.
C10_Witness ==
    \E k \in DOMAIN subs :
        /\ ~subs[k].once
        /\ subs[k].calls = <<Payload(1), Payload(2), Payload(3)>>

\* C11: when the host calls a one-shot entry, the entry is no longer in the
\* registry at the moment its closure starts to run.
C11_RemovedBeforeRun ==
    [][\A id \in DOMAIN window :
          (HostCalled /\ last'.id = id /\ window[id].once) => ~last'.own]_vars

\* C11 happens: the host called the one-shot success entry of an invocation,
\* whose closure resolved the promise and did not find its own entry.
C11_Witness ==
    \E i \in DOMAIN invs :
        /\ last.hit /\ ~last.own
        /\ last.id = invs[i].callback
        /\ invs[i].state = "resolved"

\* C12: a host callback on an identifier without an entry runs no handler,
\* settles no promise, changes no registry entry and raises no error.
C12_SilentNoOp ==
    [][(HostCalled /\ last'.id \notin DOMAIN window) =>
          /\ UNCHANGED <<window, invs, subs>>
          /\ ~last'.threw]_vars

\* C13: a persistent entry stays registered whatever the host calls and is
\* removed by an explicit removal only; the source has no operation that
\* removes one, so the entry listen registered stays in the registry.
C13_PersistentStays ==
    [][\A k \in DOMAIN subs : HandlerLive(k) => HandlerLive(k)']_vars

\* C14: a host callback on the callback id of a listen whose command the host
\* has not acknowledged yet does not call the handler (stated for the runs in
\* which uid() has not repeated an identifier).
C14_NoDispatchBeforeAck ==
    [][\A k \in DOMAIN subs :
          (HostCalled /\ subs[k].state = "pending" /\ Collisions(State) = 0) =>
              subs'[k].calls = subs[k].calls]_vars

\* C15: when the host calls the success entry of an invocation it was sent
\* (the primitive took the message) with a payload, the promise of that
\* invocation is resolved with exactly that payload.
C15_ResolvesWithPayload ==
    [][\A i \in DOMAIN invs :
          (/\ HostCalled
           /\ invs[i].failure = "none"
           /\ Get(window, last'.id) =
                  [kind |-> "resolve", owner |-> i, once |-> TRUE]) =>
              /\ invs'[i].state = "resolved"
              /\ invs'[i].value = Payload(last'.n)]_vars

\* C15 happens: the latest host callback was on the success id of an
\* invocation of the application, which is resolved with its payload.
C15_Witness ==
    \E i \in DOMAIN invs :
        /\ invs[i].origin.kind = "user"
        /\ last.hit /\ last.id = invs[i].callback
        /\ invs[i].state = "resolved"
        /\ invs[i].failure = "none"
        /\ invs[i].value = Payload(last.n)
        /\ last.n > 1

\* C16: when the host calls the error entry of an invocation it was sent (the
\* primitive took the message) with a payload, the promise of that invocation
\* is rejected with exactly that payload.
C16_RejectsWithPayload ==
    [][\A i \in DOMAIN invs :
          (/\ HostCalled
           /\ invs[i].failure = "none"
           /\ Get(window, last'.id) =
                  [kind |-> "reject", owner |-> i, once |-> TRUE]) =>
              /\ invs'[i].state = "rejected"
              /\ invs'[i].value = Payload(last'.n)]_vars

\* C16 happens: the latest host callback was on the error id of an invocation
\* of the application, which is rejected with its payload.
C16_Witness ==
    \E i \in DOMAIN invs :
        /\ invs[i].origin.kind = "user"
        /\ invs[i].failure = "none"
        /\ invs[i].callback # invs[i].error
        /\ last.hit /\ last.id = invs[i].error
        /\ invs[i].state = "rejected"
        /\ invs[i].value = Payload(last.n)

\* C17: the unlisten command the thunk of a listen call sends carries the
\* event name of that call and the token with which the host resolved the
\* listen command of that same call, whatever other subscriptions there are.
C17_ThunkSendsOwnToken ==
    \A i \in DOMAIN invs :
        invs[i].origin.kind = "thunk" =>
            LET k == invs[i].origin.sub
                sent == invs[subs[k].inv]
            IN  /\ invs[i].message.cmd = "plugin:event|unlisten"
                /\ invs[i].message.event = sent.message.event
                /\ sent.state = "resolved"
                /\ invs[i].message.eventId = sent.value

\* C17 happens: two subscriptions to different events are acknowledged, with
\* different tokens, and the thunk of one of them was called.
C17_Witness ==
    \E i \in DOMAIN invs : \E j \in DOMAIN subs :
        /\ invs[i].origin.kind = "thunk"
        /\ invs[i].failure = "none"
        /\ j # invs[i].origin.sub
        /\ subs[j].state = "resolved"
        /\ subs[j].event # subs[invs[i].origin.sub].event
        /\ subs[j].eventId # subs[invs[i].origin.sub].eventId

\* C18: when the host calls the error entry of the unlisten command a thunk
\* sent, the promise the thunk returned is rejected with the host's payload.
C18_ThunkRejects ==
    [][\A i \in DOMAIN invs :
          (/\ HostCalled
           /\ invs[i].origin.kind = "thunk"
           /\ Get(window, last'.id) =
                  [kind |-> "reject", owner |-> i, once |-> TRUE]) =>
              unlistenPromise(invs'[i]) =
                  [state |-> "rejected", value |-> Payload(last'.n)]]_vars

\* C18 happens: the host rejected the unlisten command of a thunk.
C18_Witness ==
    \E i \in DOMAIN invs :
        /\ invs[i].origin.kind = "thunk"
        /\ invs[i].callback # invs[i].error
        /\ last.hit /\ last.id = invs[i].error
        /\ invs[i].state = "rejected"
        /\ unlistenPromise(invs[i]).value = Payload(last.n)

\* C19: when the host rejects an unlisten command the wrapper of once issued,
\* the caller's handler is not called, the promise once returned keeps its
\* state, and the rejection is handled: the promise chain of the command ends
\* fulfilled.
C19_UnlistenFailureSwallowed ==
    [][\A i \in DOMAIN invs :
          (/\ HostCalled
           /\ invs[i].origin.kind = "once"
           /\ Get(window, last'.id) =
                  [kind |-> "reject", owner |-> i, once |-> TRUE]) =>
              LET k == invs[i].origin.sub
              IN  /\ invs'[i].state = "rejected"
                  /\ subs'[k] = subs[k]
                  /\ catchIgnore(unlistenPromise(invs'[i])).state = "resolved"]_vars

\* C19 happens: the host rejected the unlisten command the wrapper of once
\* issued after a delivery.
C19_Witness ==
    \E i \in DOMAIN invs :
        /\ invs[i].origin.kind = "once"
        /\ invs[i].callback # invs[i].error
        /\ last.hit /\ last.id = invs[i].error
        /\ invs[i].state = "rejected"
        /\ invs[i].value = Payload(last.n)
        /\ Len(subs[invs[i].origin.sub].calls) = 1

\* The unlisten commands the wrapper of once has issued for subscription k,
\* in the order of issue.
OnceUnlistens(k) ==
    LET Mine(inv) == inv.origin.kind = "once" /\ inv.origin.sub = k
    IN  SelectSeq(invs, Mine)

\* C20: in once, every delivery calls the caller's handler and then issues one
\* unlisten command, for the id of the delivered event, after that call has
\* returned; without a delivery no unlisten command is issued.
C20_HandlerThenUnlisten ==
    \A k \in DOMAIN subs :
        subs[k].once =>
            /\ Len(OnceUnlistens(k)) = Len(subs[k].calls)
            /\ \A j \in 1..Len(OnceUnlistens(k)) :
                  /\ OnceUnlistens(k)[j].origin.handled = j
                  /\ OnceUnlistens(k)[j].message.eventId =
                         IdOf(subs[k].calls[j])

\* C20 happens: a once subscription got two deliveries, each followed by its
\* unlisten command.
C20_Witness ==
    \E k \in DOMAIN subs :
        /\ subs[k].once
        /\ Len(subs[k].calls) = 2
        /\ Len(OnceUnlistens(k)) = 2

\* ------------------------------------------------------------- mockIPC
\* The argument records of the application: none, and one with a field named
\* like a field of the message.
Args == {NoArgs, [callback |-> -1]}

\* What the mock handler cb(cmd, args) does: it returns a value (or a promise
\* of one), returns a promise that rejects, or throws.
Outcomes == {"returns", "rejects", "throws"}

\* window[`_${identifier}`](value) as the mock calls it: a TypeError where
\* there is no such property, the wrapper of the entry otherwise.  invoked:
\* the entries the mock has invoked so far.
mockCall(r, identifier, value) ==
    IF callThrows(r.st.window, identifier)
    THEN [r EXCEPT !.threw = TRUE]
    ELSE [st |-> wrapper(r.st, TRUE, identifier, value, 0, 0, FALSE),
          threw |-> FALSE,
          invoked |-> Append(r.invoked,
                             [kind |-> r.st.window[identifier].kind,
                              owner |-> r.st.window[identifier].owner,
                              arg |-> value])]

\* The body of the function mockIPC installs, from the point where the
\* handler has returned, rejected or thrown:
\*   try { window[`_${callback}`](await cb(cmd, args)) }
\*   catch (err) { window[`_${error}`](err) }
\* callback and error are the fields of those names of the message.  threw in
\* the result: the function ended in an exception, a rejection nobody handles.
mockSettle(st, task) ==
    LET r0 == [st |-> st, threw |-> FALSE, invoked |-> task.invoked]
    IN  IF task.outcome = "returns"
        THEN LET r1 == mockCall(r0, task.callback, task.value)
             IN  IF r1.threw
                 THEN mockCall([r1 EXCEPT !.threw = FALSE], task.error, TypeError)
                 ELSE r1
        ELSE mockCall(r0, task.error, task.value)

\* The application calls invoke(cmd, args) where mockIPC has installed its
\* primitive.  The primitive runs up to its await: a handler that throws is
\* caught at once, inside the call.
MockInvoke ==
    /\ ipc
    /\ steps < MaxSteps
    /\ Len(tasks) < MaxTasks
    /\ \E cmd \in Cmds, args \in Args, outcome \in Outcomes :
       \E callback \in uid(Used(State), Room) :
       \E error \in uid(Used(State) \cup {callback},
                        Room - Again(callback, Used(State))) :
          LET st1 == invoke(State, ipc, cmd, args, [kind |-> "user", sub |-> 0],
                            callback, error, FALSE)
              i == Len(st1.invs)
              task == [inv |-> i,
                       callback |-> st1.invs[i].message.callback,
                       error |-> st1.invs[i].message.error,
                       outcome |-> outcome,
                       value |-> Payload(Len(tasks) + 1),
                       done |-> FALSE, invoked |-> <<>>, unhandled |-> FALSE]
              r == mockSettle(st1, task)
          IN  IF outcome = "throws"
              THEN /\ Commit(r.st, 0)
                   /\ tasks' = Append(tasks,
                          [task EXCEPT !.done = TRUE, !.invoked = r.invoked,
                                       !.unhandled = r.threw])
              ELSE /\ Commit(st1, 0)
                   /\ tasks' = Append(tasks, task)
    /\ UNCHANGED <<ipc, last, reads, lines, win, closing, watches, writing>>

\* The primitive resumes after its await, with the handler's value or reason.
MockResume ==
    /\ \E t \in DOMAIN tasks :
          /\ ~tasks[t].done
          /\ LET r == mockSettle(State, tasks[t])
             IN  /\ Commit(r.st, 0)
                 /\ tasks' = [tasks EXCEPT ![t].done = TRUE,
                                           ![t].invoked = r.invoked,
                                           ![t].unhandled = r.threw]
    /\ UNCHANGED <<ipc, last, reads, lines, win, closing, watches, writing>>

NextMock ==
    \/ MockInvoke
    \/ MockResume

\* Tests that run against the primitive mockIPC installed.
InitMock == Init /\ ipc

SpecMock == InitMock /\ [][NextMock]_vars

\* C23: the message invoke hands to the primitive carries the command name of
\* the call and, as callback and error, the two ids registered for the call,
\* whatever the argument record is.
C23_MessageFields ==
    \A i \in DOMAIN invs :
        /\ invs[i].message.cmd = invs[i].cmd
        /\ invs[i].message.callback = invs[i].callback
        /\ invs[i].message.error = invs[i].error

\* C24: when the primitive of mockIPC has run to its end for a message, it has
\* invoked one entry of that invocation, once: the success entry with the
\* handler's value when the handler returned, the error entry with the reason
\* otherwise (stated for the runs in which uid() has not repeated an identifier).
C24_OneEntryOnce ==
    \A t \in DOMAIN tasks :
        (tasks[t].done /\ Collisions(State) = 0) =>
            tasks[t].invoked =
                << [kind |-> IF tasks[t].outcome = "returns"
                             THEN "resolve" ELSE "reject",
                    owner |-> tasks[t].inv,
                    arg |-> tasks[t].value] >>

\* ------------------------------------------------------- FileHandle.read
\* buffer.byteLength of the buffers the application reads into.
BufferSizes == {0, 2, 258}

\* n as eight bytes, the most significant first.
\* The counts of the model are below 256^4, so the first four bytes are 0.
BigEndian8(n) ==
    [i \in 1..8 |-> IF i <= 4 THEN 0 ELSE (n \div (256 ^ (8 - i))) % 256]
\* The bytes the host has for a read of n bytes: the bytes read, followed by
\* their number as eight bytes.
hostData(n) == [i \in 1..n |-> 65] \o BigEndian8(n)

\* The numbers of bytes the host can report for a read of len bytes.
HostCounts(len) == {0, 1, len - 1, len}

\* data.slice(-k): the last k elements, all of them when there are fewer.
sliceLast(data, k) ==
    IF Len(data) <= k THEN data ELSE SubSeq(data, Len(data) - k + 1, Len(data))

\* fromBytes reading only the last byte.
fromBytesLastByte(bytes) ==
    IF Len(bytes) = 0 THEN 0 ELSE bytes[Len(bytes)]

\* fromBytes(buffer): x = x * 0x100 + byte over the bytes in order.
fromBytes(bytes) ==
    LET RECURSIVE upTo(_)
        upTo(i) == IF i = 0 THEN 0 ELSE upTo(i - 1) * 256 + bytes[i]
    IN  upTo(Len(bytes))

\* FileHandle.read after the await, with the host's data:
\*   nread = fromBytes(data.slice(-8)); buffer.set(bytes.slice(0, length - 8));
\*   return nread === 0 ? null : nread
\* buffer.set throws a RangeError when the bytes do not fit the buffer.
readResult(len, data) ==
    LET nread == fromBytes(sliceLast(data, 8))
        bytes == SubSeq(data, 1, Len(data) - 8)
    IN  IF Len(bytes) > len
        THEN [state |-> "rejected", value |-> RangeError, buffer |-> <<>>]
        ELSE [state |-> "resolved",
              value |-> IF nread = 0 THEN Null ELSE Num(nread),
              buffer |-> bytes]

\* The application calls file.read(buffer): a buffer of no bytes resolves to 0
\* at once, any other sends the read command and awaits the host.
Read ==
    /\ Len(reads) < MaxReads
    /\ \E len \in BufferSizes :
          reads' = Append(reads,
              IF len = 0
              THEN [len |-> len, sent |-> <<>>, reported |-> 0,
                    state |-> "resolved", value |-> Num(0), buffer |-> <<>>]
              ELSE [len |-> len,
                    sent |-> <<[cmd |-> "plugin:fs|read", len |-> len]>>,
                    reported |-> 0,
                    state |-> "pending", value |-> Undefined, buffer |-> <<>>])
    /\ UNCHANGED <<core, tasks, lines, win, closing, watches, writing>>

\* The host answers a read command with the bytes it read.
HostRead ==
    /\ \E r \in DOMAIN reads : \E n \in HostCounts(reads[r].len) :
          /\ reads[r].state = "pending"
          /\ LET result == readResult(reads[r].len, hostData(n))
             IN  reads' = [reads EXCEPT ![r].reported = n,
                                        ![r].state = result.state,
                                        ![r].value = result.value,
                                        ![r].buffer = result.buffer]
    /\ UNCHANGED <<core, tasks, lines, win, closing, watches, writing>>

\* The host answers a read command with an error.
HostReadFails ==
    /\ \E r \in DOMAIN reads :
          /\ reads[r].state = "pending"
          /\ reads' = [reads EXCEPT ![r].state = "rejected",
                                    ![r].value = TypeError]
    /\ UNCHANGED <<core, tasks, lines, win, closing, watches, writing>>

NextFile ==
    \/ Read
    \/ HostRead
    \/ HostReadFails

SpecFile == InitEvent /\ [][NextFile]_vars

\* C26: a read into a buffer of no bytes resolves to 0 and sends no command;
\* a read into any other buffer resolves to null exactly when the host reported
\* 0 bytes, and to the reported count n, 0 < n <= buffer.byteLength, otherwise.
C26_ReadResult ==
    \A r \in DOMAIN reads :
        /\ reads[r].len = 0 =>
              /\ reads[r].state = "resolved"
              /\ reads[r].value = Num(0)
              /\ reads[r].sent = <<>>
        /\ (reads[r].len > 0 /\ reads[r].state = "resolved") =>
              /\ reads[r].value = Null <=> reads[r].reported = 0
              /\ reads[r].reported > 0 =>
                    /\ reads[r].value = Num(reads[r].reported)
                    /\ reads[r].value.v > 0
                    /\ reads[r].value.v <= reads[r].len

\* C26 happens: one read met the end of the file and another one got more
\* bytes than one byte can count.
C26_Witness ==
    \E r, q \in DOMAIN reads :
        /\ reads[r].len > 0 /\ reads[r].value = Null
        /\ reads[q].value = Num(258)

\* ----------------------------------------------------- readTextFileLines
\* The lines of the file, as the bytes of their text.
Lines == {<<>>, <<97>>, <<97, 98>>}

\* What the host sends for read_text_file_lines_next: the bytes of the line
\* and one more byte, 1 when the iteration is over and 0 when it is not.
hostLine(line, finished) == Append(line, IF finished THEN 1 ELSE 0)

\* new TextDecoder().decode(bytes), for the bytes of the model: the characters
\* with these codes, U+0000 and U+0001 among them.
Character(byte) ==
    CASE byte = 97 -> "a"
      [] byte = 98 -> "b"
      [] byte = 0 -> "U+0000"
      [] byte = 1 -> "U+0001"
decode(bytes) == [i \in DOMAIN bytes |-> Character(bytes[i])]

\* next() after its second await, with the host's bytes:
\*   done = bytes[bytes.byteLength - 1] === 1
\*   if (done) { this.rid = null; return { value: null, done } }
\*   line = decode(bytes.slice(0, bytes.byteLength)); return { value: line, done }
nextResult(bytes) ==
    LET done == bytes[Len(bytes)] = 1
    IN  IF done
        THEN [value |-> <<>>, isNull |-> TRUE, done |-> TRUE]
        ELSE [value |-> decode(SubSeq(bytes, 1, Len(bytes))),
              isNull |-> FALSE, done |-> FALSE]

NoResult == [value |-> <<>>, isNull |-> TRUE, done |-> FALSE]

\* The application calls next(): with this.rid === null it sends the command
\* that opens the file and awaits the resource id, otherwise it sends
\* read_text_file_lines_next for this.rid.
LinesNext ==
    /\ Len(lines.calls) < MaxNext
    /\ lines' = [lines EXCEPT !.calls = Append(@,
                    IF lines.rid = Null
                    THEN [pos |-> "opening", opens |-> TRUE, rid |-> Null,
                          reply |-> <<>>, result |-> NoResult]
                    ELSE [pos |-> "reading", opens |-> FALSE, rid |-> lines.rid,
                          reply |-> <<>>, result |-> NoResult])]
    /\ UNCHANGED <<core, tasks, reads, win, closing, watches, writing>>

\* The host answers read_text_file_lines with the id of a new resource:
\* next() stores it in this.rid and sends read_text_file_lines_next for it.
HostOpens ==
    /\ \E c \in DOMAIN lines.calls :
          /\ lines.calls[c].pos = "opening"
          /\ lines' = [lines EXCEPT !.opened = @ + 1,
                                    !.rid = Num(lines.opened + 1),
                                    !.calls[c].pos = "reading",
                                    !.calls[c].rid = Num(lines.opened + 1)]
    /\ UNCHANGED <<core, tasks, reads, win, closing, watches, writing>>

\* The host answers read_text_file_lines_next with a line, or with the end.
HostLine ==
    /\ \E c \in DOMAIN lines.calls : \E line \in Lines, finished \in BOOLEAN :
          /\ lines.calls[c].pos = "reading"
          /\ finished => line = <<>>
          /\ LET bytes == hostLine(line, finished)
                 result == nextResult(bytes)
             IN  lines' = [lines EXCEPT
                     !.rid = IF result.done THEN Null ELSE @,
                     !.calls[c].pos = "returned",
                     !.calls[c].reply = bytes,
                     !.calls[c].result = result]
    /\ UNCHANGED <<core, tasks, reads, win, closing, watches, writing>>

NextLines ==
    \/ LinesNext
    \/ HostOpens
    \/ HostLine

SpecLines == InitEvent /\ [][NextLines]_vars

\* C27: the first next() opens a resource; a later next() opens a new one
\* when the next() before it returned done, and otherwise reuses the resource
\* of the next() before it.
C27_OneResourcePerIteration ==
    [][Len(lines'.calls) = Len(lines.calls) + 1 =>
          LET c == Len(lines'.calls)
              new == lines'.calls[c]
          IN  IF c = 1 THEN new.opens
              ELSE LET before == lines.calls[c - 1]
                   IN  IF before.pos = "returned" /\ before.result.done
                       THEN new.opens
                       ELSE ~new.opens /\ new.rid = before.rid]_vars

\* C28: the value next() returns for a reply that does not end the iteration
\* is the text of the reply's bytes without the last byte, the flag.
C28_LineWithoutFlag ==
    \A c \in DOMAIN lines.calls :
        (lines.calls[c].pos = "returned" /\ ~lines.calls[c].result.done) =>
            lines.calls[c].result.value =
                decode(SubSeq(lines.calls[c].reply, 1,
                              Len(lines.calls[c].reply) - 1))

\* ---------------------------------------------------------- WindowHandle
\* this.listeners is a function from the events that have had a listener to
\* the array of their handlers; the arrays are sequences, and the positions
\* of JavaScript (from 0) are one less than those of the sequences.
localTauriEvents == {"tauri://created", "tauri://error"}
Handlers == {"h1", "h2"}

\* listeners.indexOf(handler): the first position of handler, -1 without one.
indexOf(listeners, h) ==
    IF \E i \in DOMAIN listeners : listeners[i] = h
    THEN (CHOOSE i \in DOMAIN listeners :
             /\ listeners[i] = h
             /\ \A j \in 1..(i - 1) : listeners[j] # h) - 1
    ELSE -1

\* listeners.splice(start, 1): a negative start counts from the end, and the
\* element at the start, when there is one, is removed.
spliceOne(listeners, start) ==
    LET len == Len(listeners)
        from == IF start < 0
                THEN (IF len + start < 0 THEN 0 ELSE len + start)
                ELSE (IF start > len THEN len ELSE start)
        count == IF len - from < 1 THEN len - from ELSE 1
    IN  [i \in 1..(len - count) |->
            IF i <= from THEN listeners[i] ELSE listeners[i + count]]

\* _handleTauriEvent for a local event: the first handler of an event makes
\* its array, a later one is pushed.
_handleTauriEvent(listeners, event, h) ==
    IF event \notin DOMAIN listeners
    THEN [e \in DOMAIN listeners \cup {event} |->
             IF e = event THEN <<h>> ELSE listeners[e]]
    ELSE [listeners EXCEPT ![event] = Append(@, h)]

\* The registrations of handler h for an event.
Registrations(listeners, h) ==
    Cardinality({i \in DOMAIN listeners : listeners[i] = h})

\* The events of the host that the model takes for "every other event".
hostEvents == {"tauri://focus"}

\* The handlers that throw when they are called.
Throwing == {"h2"}

\* window.__TAURI_INVOKE__(cmd, ...) of a window operation: the command goes
\* to the host.
sendCommand(w, cmd, event) ==
    [w EXCEPT !.sent = Append(@, [cmd |-> cmd, event |-> event])]

\* listen(event, handler, options) of window.js: the handler is registered as
\* a callback (transformCallback) and plugin:event|listen is sent.
windowListen(w, event) ==
    sendCommand([w EXCEPT !.registered = @ + 1], "plugin:event|listen", event)

\* The handlers `for (const handler of listeners) handler(...)` calls: the
\* handlers in order, up to the first that throws.
calledOf(listeners) ==
    IF \E i \in DOMAIN listeners : listeners[i] \in Throwing
    THEN SubSeq(listeners, 1,
                CHOOSE i \in DOMAIN listeners :
                    /\ listeners[i] \in Throwing
                    /\ \A j \in 1..(i - 1) : listeners[j] \notin Throwing)
    ELSE listeners

\* emit(event) for a local event: the handlers of this.listeners[event] are
\* called in order; a handler that throws ends the loop and rejects the
\* promise emit returns.
emitLocal(w, event) ==
    LET listeners == IF event \in DOMAIN w.listeners
                     THEN w.listeners[event] ELSE <<>>
        called == calledOf(listeners)
    IN  [win |-> [w EXCEPT
                    !.called = called,
                    !.calls = [h \in DOMAIN w.calls |->
                                  w.calls[h] + Registrations(called, h)]],
         threw |-> called # listeners]

\* WindowHandle.listen(event, handler): for a local event the handler is
\* registered and the promise resolves to a thunk; for another event listen
\* of window.js is called.
WindowListen ==
    /\ Len(win.thunks) < MaxListens
    /\ \E event \in localTauriEvents \cup hostEvents, h \in Handlers :
          win' = IF event \in localTauriEvents
                 THEN [win EXCEPT
                         !.listeners = _handleTauriEvent(@, event, h),
                         !.thunks = Append(@, [event |-> event, handler |-> h,
                                               calls |-> 0, kind |-> "listen"])]
                 ELSE [windowListen(win, event) EXCEPT
                         !.thunks = Append(@, [event |-> event, handler |-> h,
                                               calls |-> 0, kind |-> "listen"])]
    /\ UNCHANGED <<core, tasks, reads, lines, closing, watches, writing>>

\* WindowHandle.once(event, handler): as listen, but for another event once
\* of window.js is called, which listens with a handler of its own.
WindowOnce ==
    /\ Len(win.thunks) < MaxListens
    /\ \E event \in localTauriEvents \cup hostEvents, h \in Handlers :
          win' = IF event \in localTauriEvents
                 THEN [win EXCEPT
                         !.listeners = _handleTauriEvent(@, event, h),
                         !.thunks = Append(@, [event |-> event, handler |-> h,
                                               calls |-> 0, kind |-> "once"])]
                 ELSE [windowListen(win, event) EXCEPT
                         !.thunks = Append(@, [event |-> event, handler |-> h,
                                               calls |-> 0, kind |-> "once"])]
    /\ UNCHANGED <<core, tasks, reads, lines, closing, watches, writing>>

\* The application calls a thunk that listen or once returned for a local
\* event.
CallThunk ==
    /\ \E t \in DOMAIN win.thunks :
          /\ win.thunks[t].event \in localTauriEvents
          /\ win.thunks[t].calls < MaxThunkCalls
          /\ LET event == win.thunks[t].event
                 listeners == win.listeners[event]
             IN  win' = [win EXCEPT
                     !.listeners[event] =
                         spliceOne(listeners, indexOf(listeners, win.thunks[t].handler)),
                     !.thunks[t].calls = @ + 1]
    /\ UNCHANGED <<core, tasks, reads, lines, closing, watches, writing>>

\* WindowHandle.emit(event): for a local event the handlers of the event are
\* called; for another event plugin:event|emit is sent.
WindowEmit ==
    /\ win.emits < MaxEmits
    /\ \E event \in localTauriEvents \cup hostEvents :
          win' = [(IF event \in localTauriEvents
                   THEN emitLocal(win, event).win
                   ELSE sendCommand(win, "plugin:event|emit", event))
                  EXCEPT !.emits = @ + 1, !.event = event]
    /\ UNCHANGED <<core, tasks, reads, lines, closing, watches, writing>>

\* new Window(label, options) without skip: plugin:window|create is sent.
\* The handle is new, so the application has done nothing with it yet.
Construct ==
    /\ win.create = "skipped"
    /\ win.thunks = <<>>
    /\ win.emits = 0
    /\ win' = [sendCommand(win, "plugin:window|create", "") EXCEPT
                  !.create = "pending"]
    /\ UNCHANGED <<core, tasks, reads, lines, closing, watches, writing>>

\* .then(async () => this.emit("tauri://created"))
\* .catch(async (e) => this.emit("tauri://error", e)) with the host's answer:
\* the catch also takes the rejection of the promise the then callback gave.
constructorSettled(w, accepted) ==
    IF accepted
    THEN LET created == emitLocal(w, "tauri://created")
         IN  IF created.threw
             THEN [emitLocal(created.win, "tauri://error").win EXCEPT
                      !.fired = <<"tauri://created", "tauri://error">>]
             ELSE [created.win EXCEPT !.fired = <<"tauri://created">>]
    ELSE [emitLocal(w, "tauri://error").win EXCEPT
             !.fired = <<"tauri://error">>]

\* The host answers plugin:window|create.
HostCreates ==
    /\ win.create = "pending"
    /\ \E accepted \in BOOLEAN :
          win' = [constructorSettled(win, accepted) EXCEPT
                     !.create = IF accepted THEN "accepted" ELSE "rejected"]
    /\ UNCHANGED <<core, tasks, reads, lines, closing, watches, writing>>

NextWindow ==
    \/ WindowListen
    \/ WindowOnce
    \/ CallThunk
    \/ WindowEmit
    \/ Construct
    \/ HostCreates

SpecWindow == InitEvent /\ [][NextWindow]_vars

\* C31: a handler that is only registered with once for local events is
\* called at most once for each of these registrations.
C31_OnceCalledOnce ==
    \A h \in Handlers :
        LET regs == {t \in DOMAIN win.thunks :
                        /\ win.thunks[t].handler = h
                        /\ win.thunks[t].event \in localTauriEvents}
        IN  (/\ regs # {}
             /\ \A t \in regs : win.thunks[t].kind = "once") =>
                win.calls[h] <= Cardinality(regs)

\* C32: a Window constructed without skip has sent one create command, and
\* once the host has answered it has emitted one event: tauri://created when
\* the host accepted, tauri://error when it rejected.
C32_OneCreateOneEvent ==
    win.create # "skipped" =>
        /\ Cardinality({i \in DOMAIN win.sent :
                            win.sent[i].cmd = "plugin:window|create"}) = 1
        /\ win.create = "accepted" => win.fired = <<"tauri://created">>
        /\ win.create = "rejected" => win.fired = <<"tauri://error">>

\* C33: listen, once and emit for a local event send nothing to the host and
\* register no callback, and emit calls the handlers of the event in the order
\* of their registration; for another event they send one command and leave
\* the local listeners alone.
C33_LocalEventsStayLocal ==
    [][/\ Len(win'.thunks) = Len(win.thunks) + 1 =>
             IF win'.thunks[Len(win'.thunks)].event \in localTauriEvents
             THEN win'.sent = win.sent /\ win'.registered = win.registered
             ELSE /\ win'.listeners = win.listeners
                  /\ Len(win'.sent) = Len(win.sent) + 1
       /\ win'.emits = win.emits + 1 =>
             IF win'.event \in localTauriEvents
             THEN /\ win'.sent = win.sent
                  /\ win'.registered = win.registered
                  /\ win'.called = IF win'.event \in DOMAIN win.listeners
                                   THEN win.listeners[win'.event] ELSE <<>>
             ELSE /\ win'.listeners = win.listeners
                  /\ win'.calls = win.calls
                  /\ Len(win'.sent) = Len(win.sent) + 1]_vars

\* C30: the first call of a thunk of a local event removes one registration
\* of its handler and no registration of another handler; a further call
\* leaves the listeners as they are.
C30_ThunkRemovesOnlyItsHandler ==
    [][\A t \in DOMAIN win.thunks :
          (/\ Len(win'.thunks) = Len(win.thunks)
           /\ win'.thunks[t].calls = win.thunks[t].calls + 1) =>
              LET event == win.thunks[t].event
                  h == win.thunks[t].handler
              IN  IF win.thunks[t].calls = 0
                  THEN \A g \in Handlers :
                          Registrations(win'.listeners[event], g) =
                              Registrations(win.listeners[event], g)
                                  - (IF g = h THEN 1 ELSE 0)
                  ELSE win'.listeners = win.listeners]_vars

\* ------------------------------------------------------ onCloseRequested
\* this.close() as the then callback of onCloseRequested calls it without
\* looking at the event.
thenCloseAlways(c, d) ==
    [c EXCEPT !.sent = Append(@, d)]

\* The then callback of onCloseRequested for delivery d:
\*   if (!evt.isPreventDefault()) return this.close()
\* where close sends plugin:window|close.
thenClose(c, d) ==
    IF ~c.events[d]._preventDefault
    THEN [c EXCEPT !.sent = Append(@, d)]
    ELSE c

\* The host delivers a close-requested event: the callback makes the
\* CloseRequestedEvent (_preventDefault = false) and calls the handler, which
\* returns or throws.  The result of a handler that has returned is pending
\* until it settles; its calls of preventDefault, before it returns or
\* later, are steps of PreventDefault.  A handler that throws may have called
\* preventDefault before.
CloseRequested ==
    /\ Len(closing.events) < MaxCloseRequests
    /\ \E throws \in BOOLEAN :
       \E prevents \in (IF throws THEN BOOLEAN ELSE {FALSE}) :
          closing' = [closing EXCEPT !.events = Append(@,
                         [_preventDefault |-> prevents,
                          result |-> IF throws THEN "threw" ELSE "pending"])]
    /\ UNCHANGED <<core, tasks, reads, lines, win, watches, writing>>

\* The handler calls evt.preventDefault() while its result is pending.
PreventDefault ==
    /\ \E d \in DOMAIN closing.events :
          /\ closing.events[d].result = "pending"
          /\ ~closing.events[d]._preventDefault
          /\ closing' = [closing EXCEPT !.events[d]._preventDefault = TRUE]
    /\ UNCHANGED <<core, tasks, reads, lines, win, watches, writing>>

\* The result of the handler resolves: the then callback runs.
HandlerResolves ==
    /\ \E d \in DOMAIN closing.events :
          /\ closing.events[d].result = "pending"
          /\ closing' = thenClose([closing EXCEPT !.events[d].result = "resolved"], d)
    /\ UNCHANGED <<core, tasks, reads, lines, win, watches, writing>>

\* The result of the handler rejects: the then callback does not run, and
\* void drops the rejected promise.
HandlerRejects ==
    /\ \E d \in DOMAIN closing.events :
          /\ closing.events[d].result = "pending"
          /\ closing' = [closing EXCEPT !.events[d].result = "rejected"]
    /\ UNCHANGED <<core, tasks, reads, lines, win, watches, writing>>

NextClose ==
    \/ CloseRequested
    \/ PreventDefault
    \/ HandlerResolves
    \/ HandlerRejects

SpecClose == InitEvent /\ [][NextClose]_vars

\* The close commands sent for delivery d.
Closes(d) ==
    Cardinality({i \in DOMAIN closing.sent : closing.sent[i] = d})

focusEvents == <<"tauri://focus", "tauri://blur">>
fileDropEvents ==
    <<"tauri://file-drop", "tauri://file-drop-hover", "tauri://file-drop-cancelled">>

\* The function is called: it sends the listen of its first event and awaits
\* the thunk.
startWatch(events) ==
    [events |-> events, awaiting |-> 1, state |-> "pending", active |-> {}]

OnFocusChanged ==
    /\ Len(watches) < MaxWatches
    /\ watches' = Append(watches, startWatch(focusEvents))
    /\ UNCHANGED <<core, tasks, reads, lines, win, closing, writing>>

OnFileDropEvent ==
    /\ Len(watches) < MaxWatches
    /\ watches' = Append(watches, startWatch(fileDropEvents))
    /\ UNCHANGED <<core, tasks, reads, lines, win, closing, writing>>

\* The awaited listen has settled.  Accepted: the subscription is active at
\* the host, and the function sends its next listen or, after the last,
\* returns the thunk of all.  Rejected: the await throws and the promise of
\* the function rejects.
listenSettled(watch, accepted) ==
    IF accepted
    THEN [watch EXCEPT
            !.active = @ \cup {watch.events[watch.awaiting]},
            !.awaiting = @ + 1,
            !.state = IF watch.awaiting = Len(watch.events)
                      THEN "resolved" ELSE "pending"]
    ELSE [watch EXCEPT !.state = "rejected"]

\* The host answers the listen a call awaits.
HostListens ==
    /\ \E c \in DOMAIN watches, accepted \in BOOLEAN :
          /\ watches[c].state = "pending"
          /\ watches' = [watches EXCEPT ![c] = listenSettled(@, accepted)]
    /\ UNCHANGED <<core, tasks, reads, lines, win, closing, writing>>

\* The application calls the thunk the function resolved to: the thunk of
\* every subscription is called.
CallUnlistenAll ==
    /\ \E c \in DOMAIN watches :
          /\ watches[c].state = "resolved"
          /\ watches[c].active # {}
          /\ watches' = [watches EXCEPT ![c].active = {}]
    /\ UNCHANGED <<core, tasks, reads, lines, win, closing, writing>>

NextWatch ==
    \/ OnFocusChanged
    \/ OnFileDropEvent
    \/ HostListens
    \/ CallUnlistenAll

SpecWatch == InitEvent /\ [][NextWatch]_vars

\* C35: a call of onFocusChanged or onFileDropEvent whose promise has
\* rejected has no subscription active at the host.
C35_RejectedLeavesNoSubscription ==
    \A c \in DOMAIN watches :
        watches[c].state = "rejected" => watches[c].active = {}

\* ------------------------------------------------- writeFile with a stream
\* The streams: the sequences of up to MaxChunks chunks.
Chunks == {"c1", "c2"}
Streams == UNION {[1..n -> Chunks] : n \in 0..MaxChunks}

\* The resource id the host gives the file writeFile opens.
FileRid == Num(7)

\* What writeFile does once the file is open or a chunk is written: it takes
\* the next chunk of the stream and sends its write, or after the last chunk
\* sends close.
nextChunk(w) ==
    IF w.next <= Len(w.chunks)
    THEN [w EXCEPT !.pos = "writing",
                   !.sent = Append(@, [cmd |-> "plugin:fs|write", rid |-> w.rid,
                                       data |-> w.chunks[w.next]])]
    ELSE [w EXCEPT !.pos = "closing",
                   !.sent = Append(@, [cmd |-> "close", rid |-> w.rid,
                                       data |-> ""])]

\* writeFile(path, data) with data a ReadableStream: open(path, options) sends
\* plugin:fs|open.
WriteFile ==
    /\ writing.pos = "idle"
    /\ \E chunks \in Streams :
          writing' = [writing EXCEPT
              !.pos = "opening",
              !.chunks = chunks,
              !.sent = Append(@, [cmd |-> "plugin:fs|open", rid |-> Null,
                                  data |-> ""])]
    /\ UNCHANGED <<core, tasks, reads, lines, win, closing, watches>>

\* The host answers plugin:fs|open: with a resource id, and writeFile goes on
\* to the stream, or with an error, and writeFile rejects.
HostOpensFile ==
    /\ writing.pos = "opening"
    /\ \E accepted \in BOOLEAN :
          writing' = IF accepted
                     THEN nextChunk([writing EXCEPT !.rid = FileRid])
                     ELSE [writing EXCEPT !.pos = "rejected"]
    /\ UNCHANGED <<core, tasks, reads, lines, win, closing, watches>>

\* The host answers plugin:fs|write: `await file.write(chunk)` returns and
\* the loop goes on, or it throws and writeFile rejects.
HostWrites ==
    /\ writing.pos = "writing"
    /\ \E accepted \in BOOLEAN :
          writing' = IF accepted
                     THEN nextChunk([writing EXCEPT !.next = @ + 1])
                     ELSE [writing EXCEPT !.pos = "rejected"]
    /\ UNCHANGED <<core, tasks, reads, lines, win, closing, watches>>

\* The host answers close: writeFile resolves or rejects.
HostCloses ==
    /\ writing.pos = "closing"
    /\ \E accepted \in BOOLEAN :
          writing' = [writing EXCEPT
                         !.pos = IF accepted THEN "resolved" ELSE "rejected"]
    /\ UNCHANGED <<core, tasks, reads, lines, win, closing, watches>>

NextWrite ==
    \/ WriteFile
    \/ HostOpensFile
    \/ HostWrites
    \/ HostCloses

SpecWrite == InitEvent /\ [][NextWrite]_vars

\* The chunks of the write commands sent, in the order they were sent.
Written ==
    LET writes == SelectSeq(writing.sent, LAMBDA m : m.cmd = "plugin:fs|write")
    IN  [i \in DOMAIN writes |-> writes[i].data]

\* C37: the writes sent are the first chunks of the stream in their order,
\* one more than acknowledged at most, and when writeFile has settled after
\* it opened a handle, close has been sent for that handle.
C37_WritesInOrderAndCloses ==
    /\ Len(Written) <= Len(writing.chunks)
    /\ Written = SubSeq(writing.chunks, 1, Len(Written))
    /\ Len(Written) <= writing.next
    /\ (writing.pos \in {"resolved", "rejected"} /\ writing.rid # Null) =>
          \E i \in DOMAIN writing.sent :
              /\ writing.sent[i].cmd = "close"
              /\ writing.sent[i].rid = writing.rid

\* C36: at most one next() of the iterator is waiting for the host to open
\* the file.
C36_OneOpenAtATime ==
    Cardinality({c \in DOMAIN lines.calls : lines.calls[c].pos = "opening"}) <= 1

\* ------------------------------------------------ a host that always replies
\* The host answers invocation i: it calls one of the entries the invocation
\* has in the registry.  A host is only sent the invocations whose message the
\* primitive took.
Reply(i) ==
    /\ i \in DOMAIN invs
    /\ invs[i].failure = "none"
    /\ \E identifier \in EntriesOf(i) :
          /\ last' = [n |-> last.n + 1, id |-> identifier, hit |-> TRUE,
                      own |-> identifier \in
                                  DOMAIN enter(State, identifier).window,
                      threw |-> callThrows(window, identifier)]
          /\ \E new \in {wrapper(State, ipc, identifier, Payload(last.n + 1),
                                 0, 0, FALSE)} :
                /\ window' = new.window
                /\ invs' = new.invs
                /\ subs' = new.subs
    /\ UNCHANGED <<ipc, steps, rest>>

HostReplies == \E i \in 1..MaxSteps : Reply(i)

NextReply ==
    \/ MockIPC
    \/ ClearMocks
    \/ Invoke
    \/ HostReplies

\* The host leaves no invocation it can answer unanswered for ever.
SpecReply ==
    /\ Init
    /\ [][NextReply]_vars
    /\ \A i \in 1..MaxSteps : WF_vars(Reply(i))

\* C21: with a host that eventually calls an entry of every invocation it was
\* sent, every promise invoke returned is settled in the end.
C21_EventuallySettles ==
    \A i \in 1..MaxSteps :
        (i \in DOMAIN invs) ~>
            (i \in DOMAIN invs /\ invs[i].state # "pending")

\* C22: as long as the host calls neither id of an invocation it was sent, the
\* promise stays pending and both entries of the invocation stay registered.
C22_PendingForEver ==
    [][\A i \in DOMAIN invs :
          (/\ Outstanding(i)
           /\ Get(window, invs[i].callback) =
                  [kind |-> "resolve", owner |-> i, once |-> TRUE]
           /\ Get(window, invs[i].error) =
                  [kind |-> "reject", owner |-> i, once |-> TRUE]
           /\ ~(HostCalled /\ last'.id \in Own(i))) =>
              /\ invs'[i] = invs[i]
              /\ Get(window', invs[i].callback) = Get(window, invs[i].callback)
              /\ Get(window', invs[i].error) = Get(window, invs[i].error)]_vars

\* C25: the handler of a subscription is called by a host callback on its
\* callback id and by nothing else: listen, the acknowledgement of the listen
\* command, the thunk and the acknowledgement of the unlisten command call no
\* handler, so without a notification in between the handler has no calls.
C25_NoCallWithoutNotification ==
    [][/\ \A k \in DOMAIN subs :
              subs'[k].calls # subs[k].calls =>
                  HostCalled /\ last'.id = subs[k].handler
       /\ \A k \in DOMAIN subs' \ DOMAIN subs : subs'[k].calls = <<>>]_vars

\* C25 happens: listen, its acknowledgement, the thunk and its
\* acknowledgement, with no other host callback, and the handler has no calls.
C25_Witness ==
    \E k \in DOMAIN subs :
        /\ Unlistened(k, "thunk")
        /\ last.n = 2
        /\ Len(subs) = 1
        /\ subs[k].calls = <<>>

\* C29: when the host has rejected the listen command, the promise of listen
\* is rejected and the persistent entry of that listen is not in the registry
\* (stated for the runs in which uid() has not repeated an identifier).
C29_FailedListenCleansUp ==
    \A k \in DOMAIN subs :
        (/\ invs[subs[k].inv].state = "rejected"
         /\ invs[subs[k].inv].delivered = 1
         /\ Collisions(State) = 0) =>
            /\ subs[k].state = "rejected"
            /\ ~HandlerLive(k)

====
